---- MODULE Spec2Model ----
(***************************************************************************)
(* The inlet/outlet velocity initializers of llalbm                         *)
(* (src/llalbm/src/core/initializers/InletOutletInitializer.hpp): the four  *)
(* policies VelocityInitializer, OMPVelocityInitializer,                    *)
(* STDExecVelocityInitializer and OpenACCVelocityInitializer, their static  *)
(* registration (attach_nodes, attach_update_functions) and update_nodes,   *)
(* statement by statement, with the parallel loops' iterations interleaved. *)
(***************************************************************************)
EXTENDS Integers, Sequences, FiniteSets, TLC

\* ------------------------------------------------------------------ sizes

\* Number of physical dimensions: the template parameter, 2 in the test.
dim == 2

\* Extent of the lattice along every axis (the test uses 100).
LatticeExtent == 2

\* update_nodes is called with time_step in 0..MaxTime.
MaxTime == 1

\* Calls (attach_nodes, attach_update_functions, update_nodes) that one run
\* of the program makes.
MaxCalls == 4

\* ------------------------------------------------------------- data types

Variants == {"VelocityInitializer", "OMPVelocityInitializer",
             "STDExecVelocityInitializer", "OpenACCVelocityInitializer"}

Families == {"inlet", "outlet"}

Dims == 0 .. (dim - 1)

Times == 0 .. MaxTime

\* BoundaryPoint<dim>: its coords member, coords[k] of the code at k + 1.
BoundaryPoint == [1 .. dim -> 0 .. (LatticeExtent - 1)]

\* Index tuple of the rank dim+1 velocity tensor: a point and a component.
CellOf(p, j) == [k \in 1 .. (dim + 1) |-> IF k <= dim THEN p[k] ELSE j]

Cells == {CellOf(p, j) : p \in BoundaryPoint, j \in Dims}

\* The spatial part of a tensor index.
PointOf(c) == [k \in 1 .. dim |-> c[k]]

\* Four points of the lattice: two opposite corners, and the two points that
\* mix one coordinate of each.
CornerA == [k \in 1 .. dim |-> IF k = 1 THEN 0 ELSE LatticeExtent - 1]

CornerB == [k \in 1 .. dim |-> IF k = 1 THEN LatticeExtent - 1 ELSE 0]

MixedAB == [k \in 1 .. dim |-> 0]

MixedBA == [k \in 1 .. dim |-> LatticeExtent - 1]

\* What a caller hands to attach_nodes: <<inlet points, outlet points>>.
NodeArgs == {
    <<<<>>, <<>>>>,                       \* nothing registered
    <<<<CornerA, CornerB>>, <<>>>>,       \* two inlet points, no outlet
    <<<<>>, <<CornerA, CornerB>>>>,       \* two outlet points, no inlet
    <<<<CornerA>>, <<CornerB>>>>,         \* an inlet and an outlet point
    <<<<MixedAB>>, <<>>>>,                \* a smaller set: one inlet point
    <<<<CornerA, CornerA>>, <<>>>>,       \* a coordinate registered twice
    <<<<CornerA>>, <<CornerA>>>>,         \* a point that is inlet and outlet
    <<<<CornerA>>, <<CornerA, CornerB>>>> }   \* ... among other outlet points

\* The longest list of NodeArgs.
AllLists == {a[1] : a \in NodeArgs} \cup {a[2] : a \in NodeArgs}

MaxNodes == Len(CHOOSE l \in AllLists : \A m \in AllLists : Len(m) <= Len(l))

\* std::function<double(double, BoundaryPoint<dim>)>: a named pure function
\* or an empty (default-constructed) one.
EmptyFunction == "empty"

FunctionNames == {"f", "g"}

\* std::array<std::function<...>, dim>: one function per dimension.  The
\* array named a holds the functions <<a, 0>> .. <<a, dim-1>>.
FunctionArray(a) == [j \in Dims |-> <<a, j>>]

FunctionArrays == {FunctionArray(a) : a \in FunctionNames \cup {EmptyFunction}}

\* What a caller hands to attach_update_functions: the test's pair (inlet
\* functions set, outlet functions default-constructed), its mirror image and
\* a full pair.
FunctionArgs == {<<FunctionArray("f"), FunctionArray(EmptyFunction)>>,
                 <<FunctionArray(EmptyFunction), FunctionArray("g")>>,
                 <<FunctionArray("f"), FunctionArray("g")>>}

IsSet(fn) == fn[1] # EmptyFunction

\* The value a pure update function returns: distinct functions, times and
\* points give distinct values, none of them the field's initial value.
Apply(fn, t, p) == [fn |-> fn, t |-> t, p |-> p]

InitialValue == [fn |-> <<"initial", 0>>, t |-> 0, p |-> [k \in 1 .. dim |-> 0]]

\* An Eigen::array<Eigen::Index, dim+1> that was declared and not yet written.
Uninitialized == [k \in 1 .. (dim + 1) |-> -1]

NoValue == [fn |-> <<"none", 0>>, t |-> 0, p |-> [k \in 1 .. dim |-> 0]]

\* ------------------------------------------------------------------ state

VARIABLES
    inlet_nodes,            \* per policy class: static std::vector<BoundaryPoint>
    outlet_nodes,
    inlet_update_function,  \* per policy class: static std::array<std::function>
    outlet_update_function,
    velocity_tensor,        \* the caller's tensor, passed by reference
    density_tensor,         \* the caller's tensor, passed by value
    call_pc,                \* idle | inlet | outlet | returned | failed
    call_variant,           \* the policy whose update_nodes runs
    time_step,              \* its argument
    coordinates,            \* the scratch index arrays of the running call
    iters,                  \* the running loop's iterations
    pre_velocity,           \* velocity_tensor when the running call began
    evals,                  \* update-function evaluations of the running call
    policy,                 \* the initializer the lattice configuration names
    caller_nodes,           \* the caller's own vectors of boundary points
    arg_nodes,              \* what the last attach_nodes was handed
    arg_functions,          \* what the last attach_update_functions was handed
    replaced_points,        \* points of earlier registrations
    n_calls,                \* calls the program has made
    lbm_pc,                 \* perform_lbm: idle, the phase to run next, done
    sim_time,               \* the simulation time: timesteps completed
    num_steps,              \* perform_lbm's argument
    phase_log               \* the phases run so far in the current timestep

registration == <<inlet_nodes, outlet_nodes, inlet_update_function,
                  outlet_update_function>>

fields == <<velocity_tensor, density_tensor>>

running == <<call_pc, call_variant, time_step, coordinates, iters,
             pre_velocity, evals>>

caller == <<policy, caller_nodes, arg_nodes, arg_functions, replaced_points,
            n_calls>>

orchestrator == <<lbm_pc, sim_time, num_steps, phase_log>>

vars == <<registration, fields, running, caller, orchestrator>>

\* ---------------------------------------------------------------- helpers

Range(s) == {s[i] : i \in DOMAIN s}

Nodes(family, v) == IF family = "inlet" THEN inlet_nodes[v] ELSE outlet_nodes[v]

UpdateFunction(family, v) ==
    IF family = "inlet" THEN inlet_update_function[v]
    ELSE outlet_update_function[v]

\* The loops of VelocityInitializer and OpenACCVelocityInitializer (its
\* pragma is commented out) run their iterations in order; the OpenMP loop
\* and std::for_each(std::execution::par, ...) run them concurrently.
Parallel(v) == v \in {"OMPVelocityInitializer", "STDExecVelocityInitializer"}

\* Where iteration i of policy v keeps its coordinates: the OpenMP loop is
\* private(coordinates); the for_each lambda captures the call's one array
\* by reference, as the sequential loops use it.
Scratch(v, i) == IF v = "OMPVelocityInitializer" THEN i ELSE 0

StartIteration == [pc |-> "copy", k |-> 0, j |-> 0, val |-> NoValue]

StartLoop(list) == [i \in 1 .. Len(list) |-> StartIteration]

NoEvals == [e \in {} |-> 0]

Count(bag, e) == IF e \in DOMAIN bag THEN bag[e] ELSE 0

Record(bag, e) ==
    [x \in DOMAIN bag \cup {e} |-> IF x = e THEN Count(bag, e) + 1 ELSE bag[x]]

\* ------------------------------------------------------------------- Init

Init ==
    /\ inlet_nodes = [v \in Variants |-> <<>>]
    /\ outlet_nodes = [v \in Variants |-> <<>>]
    /\ inlet_update_function = [v \in Variants |-> FunctionArray(EmptyFunction)]
    /\ outlet_update_function = [v \in Variants |-> FunctionArray(EmptyFunction)]
    /\ velocity_tensor = [c \in Cells |-> InitialValue]
    /\ density_tensor = [p \in BoundaryPoint |-> InitialValue]
    /\ call_pc = "idle"
    /\ call_variant \in Variants
    /\ policy = call_variant
    /\ time_step = 0
    /\ coordinates = [s \in 0 .. MaxNodes |-> Uninitialized]
    /\ iters = <<>>
    /\ pre_velocity = velocity_tensor
    /\ evals = NoEvals
    /\ caller_nodes = <<<<>>, <<>>>>
    /\ arg_nodes = <<<<>>, <<>>>>
    /\ arg_functions = <<FunctionArray(EmptyFunction), FunctionArray(EmptyFunction)>>
    /\ replaced_points = {}
    /\ n_calls = 0
    /\ lbm_pc = "idle"
    /\ sim_time = 0
    /\ num_steps = 0
    /\ phase_log = <<>>

\* ----------------------------------------------------------- registration

\* attach_nodes as it would be if it also reset the policy's update
\* functions (a re-initialisation of the whole registration).
attach_nodes_resetting(v, inlet_nodes_, outlet_nodes_) ==
    /\ inlet_nodes' = [inlet_nodes EXCEPT ![v] = inlet_nodes_]
    /\ outlet_nodes' = [outlet_nodes EXCEPT ![v] = outlet_nodes_]
    /\ inlet_update_function' =
           [inlet_update_function EXCEPT ![v] = FunctionArray(EmptyFunction)]
    /\ outlet_update_function' =
           [outlet_update_function EXCEPT ![v] = FunctionArray(EmptyFunction)]

\* attach_nodes as it would be if the four classes shared one pair of lists
\* (the statics declared once, in a common non-template base).
attach_nodes_shared(v, inlet_nodes_, outlet_nodes_) ==
    /\ inlet_nodes' = [w \in Variants |-> inlet_nodes_]
    /\ outlet_nodes' = [w \in Variants |-> outlet_nodes_]
    /\ UNCHANGED <<inlet_update_function, outlet_update_function>>

\* The two assignments of attach_nodes; nothing else of the class is touched.
attach_nodes(v, inlet_nodes_, outlet_nodes_) ==
    /\ inlet_nodes' = [inlet_nodes EXCEPT ![v] = inlet_nodes_]
    /\ outlet_nodes' = [outlet_nodes EXCEPT ![v] = outlet_nodes_]
    /\ UNCHANGED <<inlet_update_function, outlet_update_function>>

attach_update_functions(v, inlet_update_function_, outlet_update_function_) ==
    /\ inlet_update_function' =
           [inlet_update_function EXCEPT ![v] = inlet_update_function_]
    /\ outlet_update_function' =
           [outlet_update_function EXCEPT ![v] = outlet_update_function_]
    /\ UNCHANGED <<inlet_nodes, outlet_nodes>>

\* ----------------------------------------------------------- update_nodes

\* update_nodes as it would be if it fetched its first update function before
\* looking at the lists: the call throws when that function is empty.
update_nodes_eager(v, t) ==
    /\ call_pc' = IF IsSet(inlet_update_function[v][0]) THEN "inlet" ELSE "failed"
    /\ call_variant' = v
    /\ time_step' = t
    /\ coordinates' = [s \in 0 .. MaxNodes |-> Uninitialized]
    /\ iters' = StartLoop(inlet_nodes[v])
    /\ pre_velocity' = velocity_tensor
    /\ evals' = NoEvals
    /\ UNCHANGED <<registration, fields>>

\* Entry: the sizes are read, coordinates is declared, the inlet loop starts.
update_nodes(v, t) ==
    /\ call_pc' = "inlet"
    /\ call_variant' = v
    /\ time_step' = t
    /\ coordinates' = [s \in 0 .. MaxNodes |-> Uninitialized]
    /\ iters' = StartLoop(inlet_nodes[v])
    /\ pre_velocity' = velocity_tensor
    /\ evals' = NoEvals
    /\ UNCHANGED <<registration, fields>>

\* Iteration i may take its next step.
Runnable(i) ==
    /\ call_pc \in Families
    /\ i \in DOMAIN iters
    /\ iters[i].pc # "done"
    /\ Parallel(call_variant) \/ \A h \in 1 .. (i - 1) : iters[h].pc = "done"

\* coordinates[k] = nodes[i].coords[k];
CopyCoordinate(i) ==
    /\ Runnable(i)
    /\ iters[i].pc = "copy"
    /\ LET s == Scratch(call_variant, i)
           k == iters[i].k
           node == Nodes(call_pc, call_variant)[i]
       IN  /\ coordinates' = [coordinates EXCEPT ![s][k + 1] = node[k + 1]]
           /\ iters' = [iters EXCEPT ![i] =
                  IF k + 1 < dim THEN [@ EXCEPT !.k = k + 1]
                  ELSE [@ EXCEPT !.pc = "eval", !.k = 0]]
    /\ UNCHANGED <<registration, fields, call_pc, call_variant, time_step,
                   pre_velocity, evals>>

\* Evaluate as it would be if an empty function were called through without
\* a check (a plain function pointer): the call yields a garbage value.
EvaluateUnchecked(i) ==
    /\ Runnable(i)
    /\ iters[i].pc = "eval"
    /\ LET s == Scratch(call_variant, i)
           j == iters[i].j
           node == Nodes(call_pc, call_variant)[i]
           fn == UpdateFunction(call_pc, call_variant)[j]
       IN  /\ coordinates' = [coordinates EXCEPT ![s][dim + 1] = j]
           /\ iters' = [iters EXCEPT ![i].pc = "write",
                                     ![i].val = Apply(fn, time_step, node)]
           /\ evals' = Record(evals, [family |-> call_pc, fn |-> fn,
                                      t |-> time_step, p |-> node])
    /\ UNCHANGED <<registration, fields, call_pc, call_variant, time_step,
                   pre_velocity>>

\* Evaluate as it would be if the body called the function twice (once to
\* test the value, once to use it).
EvaluateTwice(i) ==
    /\ Runnable(i)
    /\ iters[i].pc = "eval"
    /\ LET s == Scratch(call_variant, i)
           j == iters[i].j
           node == Nodes(call_pc, call_variant)[i]
           fn == UpdateFunction(call_pc, call_variant)[j]
           e == [family |-> call_pc, fn |-> fn, t |-> time_step, p |-> node]
       IN  /\ coordinates' = [coordinates EXCEPT ![s][dim + 1] = j]
           /\ IF IsSet(fn)
              THEN /\ iters' = [iters EXCEPT ![i].pc = "write",
                                             ![i].val = Apply(fn, time_step, node)]
                   /\ evals' = Record(Record(evals, e), e)
                   /\ call_pc' = call_pc
              ELSE /\ call_pc' = "failed"
                   /\ UNCHANGED <<iters, evals>>
    /\ UNCHANGED <<registration, fields, call_variant, time_step, pre_velocity>>

\* coordinates[dim] = j; double val = update_function[j](time_step, node);
\* calling an empty std::function throws std::bad_function_call.
Evaluate(i) ==
    /\ Runnable(i)
    /\ iters[i].pc = "eval"
    /\ LET s == Scratch(call_variant, i)
           j == iters[i].j
           node == Nodes(call_pc, call_variant)[i]
           fn == UpdateFunction(call_pc, call_variant)[j]
       IN  /\ coordinates' = [coordinates EXCEPT ![s][dim + 1] = j]
           /\ IF IsSet(fn)
              THEN /\ iters' = [iters EXCEPT ![i].pc = "write",
                                             ![i].val = Apply(fn, time_step, node)]
                   /\ evals' = Record(evals, [family |-> call_pc, fn |-> fn,
                                              t |-> time_step, p |-> node])
                   /\ call_pc' = call_pc
              ELSE /\ call_pc' = "failed"
                   /\ UNCHANGED <<iters, evals>>
    /\ UNCHANGED <<registration, fields, call_variant, time_step, pre_velocity>>

\* velocity_tensor(coordinates) = val;
Store(i) ==
    /\ Runnable(i)
    /\ iters[i].pc = "write"
    /\ LET s == Scratch(call_variant, i)
           j == iters[i].j
       IN  /\ velocity_tensor' =
                  [velocity_tensor EXCEPT ![coordinates[s]] = iters[i].val]
           /\ iters' = [iters EXCEPT ![i] =
                  IF j + 1 < dim
                  THEN [@ EXCEPT !.pc = "eval", !.j = j + 1, !.val = NoValue]
                  ELSE [@ EXCEPT !.pc = "done", !.j = 0, !.val = NoValue]]
    /\ UNCHANGED <<registration, density_tensor, call_pc, call_variant,
                   time_step, coordinates, pre_velocity, evals>>

\* The end of a loop: every iteration has finished (the implicit barrier of
\* the OpenMP loop, the return of std::for_each).  The private copies of
\* coordinates end with the parallel region.
PrivateDropped(c) == [s \in DOMAIN c |-> IF s = 0 THEN c[s] ELSE Uninitialized]

\* LoopEnd as it would be if a loop consumed its list (the nodes popped as
\* they are processed, the vector cleared at the end).
LoopEndConsuming ==
    /\ call_pc \in Families
    /\ \A i \in DOMAIN iters : iters[i].pc = "done"
    /\ IF call_pc = "inlet"
       THEN /\ call_pc' = "outlet"
            /\ iters' = StartLoop(outlet_nodes[call_variant])
            /\ coordinates' = PrivateDropped(coordinates)
            /\ inlet_nodes' = [inlet_nodes EXCEPT ![call_variant] = <<>>]
            /\ UNCHANGED outlet_nodes
       ELSE /\ call_pc' = "returned"
            /\ iters' = <<>>
            /\ coordinates' = [s \in 0 .. MaxNodes |-> Uninitialized]
            /\ outlet_nodes' = [outlet_nodes EXCEPT ![call_variant] = <<>>]
            /\ UNCHANGED inlet_nodes
    /\ UNCHANGED <<inlet_update_function, outlet_update_function, fields,
                   call_variant, time_step, pre_velocity, evals>>

\* LoopEnd as it would be if the outlet loop fetched a value of its first
\* function before its first iteration: an empty function throws there.
LoopEndProbing ==
    /\ call_pc \in Families
    /\ \A i \in DOMAIN iters : iters[i].pc = "done"
    /\ IF call_pc = "inlet"
       THEN /\ call_pc' = IF IsSet(outlet_update_function[call_variant][0])
                          THEN "outlet" ELSE "failed"
            /\ iters' = StartLoop(outlet_nodes[call_variant])
            /\ coordinates' = PrivateDropped(coordinates)
       ELSE /\ call_pc' = "returned"
            /\ iters' = <<>>
            /\ coordinates' = [s \in 0 .. MaxNodes |-> Uninitialized]
    /\ UNCHANGED <<registration, fields, call_variant, time_step,
                   pre_velocity, evals>>

\* LoopEnd as it would be without the join (an OpenMP loop with nowait, a
\* for_each that returned early): the call moves on whatever its iterations
\* are doing.
LoopEndNoWait ==
    /\ call_pc \in Families
    /\ IF call_pc = "inlet"
       THEN /\ call_pc' = "outlet"
            /\ iters' = StartLoop(outlet_nodes[call_variant])
            /\ coordinates' = PrivateDropped(coordinates)
       ELSE /\ call_pc' = "returned"
            /\ iters' = <<>>
            /\ coordinates' = [s \in 0 .. MaxNodes |-> Uninitialized]
    /\ UNCHANGED <<registration, fields, call_variant, time_step,
                   pre_velocity, evals>>

LoopEnd ==
    /\ call_pc \in Families
    /\ \A i \in DOMAIN iters : iters[i].pc = "done"
    /\ IF call_pc = "inlet"
       THEN /\ call_pc' = "outlet"
            /\ iters' = StartLoop(outlet_nodes[call_variant])
            /\ coordinates' = PrivateDropped(coordinates)
       ELSE /\ call_pc' = "returned"
            /\ iters' = <<>>
            /\ coordinates' = [s \in 0 .. MaxNodes |-> Uninitialized]
    /\ UNCHANGED <<registration, fields, call_variant, time_step,
                   pre_velocity, evals>>

\* ------------------------------------------------------------- the caller

\* The program is between two calls, and no simulation is running.
Callable == call_pc \in {"idle", "returned"} /\ lbm_pc = "idle"

CallAttachNodes ==
    /\ Callable
    /\ n_calls < MaxCalls
    /\ \E a \in NodeArgs :
        /\ attach_nodes(policy, a[1], a[2])
        /\ arg_nodes' = a
        /\ replaced_points' =
               (replaced_points \cup Range(arg_nodes[1]) \cup Range(arg_nodes[2]))
    /\ n_calls' = n_calls + 1
    /\ call_pc' = "idle"
    /\ UNCHANGED <<fields, call_variant, time_step, coordinates, iters,
                   pre_velocity, evals, policy, caller_nodes, arg_functions,
                   orchestrator>>

CallAttachUpdateFunctions ==
    /\ Callable
    /\ n_calls < MaxCalls
    /\ \E a \in FunctionArgs :
        /\ attach_update_functions(policy, a[1], a[2])
        /\ arg_functions' = a
    /\ n_calls' = n_calls + 1
    /\ call_pc' = "idle"
    /\ UNCHANGED <<fields, call_variant, time_step, coordinates, iters,
                   pre_velocity, evals, policy, caller_nodes, arg_nodes,
                   replaced_points, orchestrator>>

CallUpdateNodes ==
    /\ Callable
    /\ n_calls < MaxCalls
    /\ \E t \in Times : update_nodes(policy, t)
    /\ n_calls' = n_calls + 1
    /\ UNCHANGED <<policy, caller_nodes, arg_nodes, arg_functions,
                   replaced_points, orchestrator>>

\* One statement of one iteration of the running loop.
CopyStep ==
    /\ \E i \in DOMAIN iters : CopyCoordinate(i)
    /\ UNCHANGED <<caller, orchestrator>>

EvaluateStep ==
    /\ \E i \in DOMAIN iters : Evaluate(i)
    /\ UNCHANGED <<caller, orchestrator>>

StoreStep ==
    /\ \E i \in DOMAIN iters : Store(i)
    /\ UNCHANGED <<caller, orchestrator>>

Join ==
    /\ LoopEnd
    /\ UNCHANGED <<caller, orchestrator>>

\* A program that drives the initializer itself: setup calls and
\* update_nodes calls in any order.
Next ==
    \/ CallAttachNodes
    \/ CallAttachUpdateFunctions
    \/ CallUpdateNodes
    \/ CopyStep
    \/ EvaluateStep
    \/ StoreStep
    \/ Join

Spec == Init /\ [][Next]_vars

\* ------------------------------------------------------------ perform_lbm

\* The five phases of a timestep, in the order the orchestrator issues them.
PhaseOrder == <<"initializer", "streaming", "boundary", "collision", "macroscopic">>

\* PhaseAfter as it would be with collision issued before streaming.
PhaseAfterSwapped(n) ==
    IF n = 1 THEN "collision"
    ELSE IF n = 4 THEN "boundary"
    ELSE IF n = 3 THEN "streaming"
    ELSE IF n = 2 THEN "macroscopic"
    ELSE "endstep"

\* The phase that follows the n-th one; after the last the timestep ends.
PhaseAfter(n) == IF n < Len(PhaseOrder) THEN PhaseOrder[n + 1] ELSE "endstep"

PhaseIndex(p) == CHOOSE n \in DOMAIN PhaseOrder : PhaseOrder[n] = p

\* perform_lbm(num_steps, ...) is entered: the time loop starts at time 0.
perform_lbm(n) ==
    /\ lbm_pc = "idle"
    /\ lbm_pc' = IF n > 0 THEN PhaseOrder[1] ELSE "done"
    /\ sim_time' = 0
    /\ num_steps' = n
    /\ phase_log' = <<>>

\* Phase (a): the initializer policy refreshes the boundary velocities.
InitializerPhaseBegin ==
    /\ lbm_pc = "initializer"
    /\ update_nodes(policy, sim_time)
    /\ lbm_pc' = "updating"
    /\ UNCHANGED <<sim_time, num_steps, phase_log, caller>>

InitializerPhaseEnd ==
    /\ lbm_pc = "updating"
    /\ call_pc = "returned"
    /\ phase_log' = Append(phase_log, "initializer")
    /\ lbm_pc' = PhaseAfter(PhaseIndex("initializer"))
    /\ UNCHANGED <<registration, fields, running, caller, sim_time, num_steps>>

\* Phases (b) to (e): streaming, boundary fix-up, collision, macroscopic
\* recomputation.  They work on the distribution field, which is not part of
\* this model; what is kept of each is that it ran.
OtherPhase ==
    /\ lbm_pc \in {"streaming", "boundary", "collision", "macroscopic"}
    /\ phase_log' = Append(phase_log, lbm_pc)
    /\ lbm_pc' = PhaseAfter(PhaseIndex(lbm_pc))
    /\ UNCHANGED <<registration, fields, running, caller, sim_time, num_steps>>

\* The end of a timestep: the simulation time advances.
EndStep ==
    /\ lbm_pc = "endstep"
    /\ sim_time' = sim_time + 1
    /\ phase_log' = <<>>
    /\ lbm_pc' = IF sim_time + 1 < num_steps THEN PhaseOrder[1] ELSE "done"
    /\ UNCHANGED <<registration, fields, running, caller, num_steps>>

CallPerformLbm ==
    /\ Callable
    /\ n_calls < MaxCalls
    /\ \E n \in 1 .. (MaxTime + 1) : perform_lbm(n)
    /\ n_calls' = n_calls + 1
    /\ UNCHANGED <<registration, fields, running, policy, caller_nodes,
                   arg_nodes, arg_functions, replaced_points>>

\* A program that sets the initializer up and then runs the simulation, as
\* the lid-driven cavity test does.
NextLbm ==
    \/ CallAttachNodes
    \/ CallAttachUpdateFunctions
    \/ CallPerformLbm
    \/ InitializerPhaseBegin
    \/ CopyStep
    \/ EvaluateStep
    \/ StoreStep
    \/ Join
    \/ InitializerPhaseEnd
    \/ OtherPhase
    \/ EndStep

\* The test's lattice configuration names OMPVelocityInitializer<2>.
InitLbm ==
    /\ Init
    /\ policy = "OMPVelocityInitializer"

SpecLbm == InitLbm /\ [][NextLbm]_vars

\* ------------------------------------------- several classes, one program

\* The program calls update_nodes of a policy class other than the one it
\* attached nodes and functions to.
CallUpdateNodesElsewhere ==
    /\ Callable
    /\ n_calls < MaxCalls
    /\ \E v \in Variants \ {policy} : \E t \in Times : update_nodes(v, t)
    /\ n_calls' = n_calls + 1
    /\ UNCHANGED <<policy, caller_nodes, arg_nodes, arg_functions,
                   replaced_points, orchestrator>>

NextClasses ==
    \/ CallAttachNodes
    \/ CallAttachUpdateFunctions
    \/ CallUpdateNodes
    \/ CallUpdateNodesElsewhere
    \/ CopyStep
    \/ EvaluateStep
    \/ StoreStep
    \/ Join

\* The program attaches to a policy whose iterations keep their coordinates
\* apart: one of the sequential loops or the OpenMP loop.
InitRaceFree ==
    /\ Init
    /\ policy # "STDExecVelocityInitializer"

SpecClasses == InitRaceFree /\ [][NextClasses]_vars

\* ---------------------------------------------------- the caller's vectors

\* caller_edits as it would be if the class kept a reference to the caller's
\* vectors instead of copies of them.
caller_edits_aliased(a) ==
    /\ caller_nodes' = a
    /\ inlet_nodes' = [inlet_nodes EXCEPT ![policy] = a[1]]
    /\ outlet_nodes' = [outlet_nodes EXCEPT ![policy] = a[2]]
    /\ UNCHANGED <<inlet_update_function, outlet_update_function>>

\* The caller pushes, erases or overwrites points in its own vectors: the
\* copies the class made (inlet_nodes = inlet_nodes_;) are other objects.
caller_edits(a) ==
    /\ caller_nodes' = a
    /\ UNCHANGED registration

\* Any number of edits between two attach_nodes calls amounts to one.
CallerEditsVectors ==
    /\ Callable
    /\ caller_nodes = arg_nodes
    /\ \E a \in NodeArgs \ {caller_nodes} : caller_edits(a)
    /\ call_pc' = "idle"
    /\ UNCHANGED <<fields, call_variant, time_step, coordinates, iters,
                   pre_velocity, evals, policy, arg_nodes, arg_functions,
                   replaced_points, n_calls, orchestrator>>

\* attach_nodes(inlet, outlet) with the caller's vectors as they are now.
CallAttachCallerVectors ==
    /\ Callable
    /\ n_calls < MaxCalls
    /\ attach_nodes(policy, caller_nodes[1], caller_nodes[2])
    /\ arg_nodes' = caller_nodes
    /\ replaced_points' =
           (replaced_points \cup Range(arg_nodes[1]) \cup Range(arg_nodes[2]))
    /\ n_calls' = n_calls + 1
    /\ call_pc' = "idle"
    /\ UNCHANGED <<fields, call_variant, time_step, coordinates, iters,
                   pre_velocity, evals, policy, caller_nodes, arg_functions,
                   orchestrator>>

NextSnapshot ==
    \/ CallerEditsVectors
    \/ CallAttachCallerVectors
    \/ CallAttachUpdateFunctions
    \/ CallUpdateNodes
    \/ CopyStep
    \/ EvaluateStep
    \/ StoreStep
    \/ Join

SpecSnapshot == InitRaceFree /\ [][NextSnapshot]_vars

\* ------------------------------------------------- what the claims speak of

\* update_nodes has been entered: it runs, has returned or has thrown.
Entered == call_pc \in {"inlet", "outlet", "returned", "failed"}

Registered(v) == Range(inlet_nodes[v]) \cup Range(outlet_nodes[v])

NoDuplicates(list) ==
    \A a, b \in DOMAIN list : a # b => list[a] # list[b]

Attached(family, v) == \A j \in Dims : IsSet(UpdateFunction(family, v)[j])

\* VelocityInitializer::update_nodes as a function of the field: the loop
\* over a list, then the inlet loop followed by the outlet loop.
RECURSIVE StoreComponents(_, _, _, _, _)
StoreComponents(field, node, fns, t, j) ==
    IF j = dim THEN field
    ELSE StoreComponents([field EXCEPT ![CellOf(node, j)] = Apply(fns[j], t, node)],
                         node, fns, t, j + 1)

RECURSIVE LoopOver(_, _, _, _, _)
LoopOver(field, list, fns, t, i) ==
    IF i > Len(list) THEN field
    ELSE LoopOver(StoreComponents(field, list[i], fns, t, 0), list, fns, t, i + 1)

SequentialUpdate(field, inlet, outlet, inlet_fns, outlet_fns, t) ==
    LoopOver(LoopOver(field, inlet, inlet_fns, t, 1), outlet, outlet_fns, t, 1)

\* The memory locations the next statement of iteration i writes and reads
\* (the node lists and the function arrays are only ever read).
NextWrites(i) ==
    LET s == Scratch(call_variant, i) IN
    CASE iters[i].pc = "copy"  -> {<<"coordinates", s, iters[i].k + 1>>}
      [] iters[i].pc = "eval"  -> {<<"coordinates", s, dim + 1>>}
      [] iters[i].pc = "write" -> {<<"velocity_tensor", coordinates[s], 0>>}
      [] OTHER -> {}

NextReads(i) ==
    LET s == Scratch(call_variant, i) IN
    IF iters[i].pc = "write"
    THEN {<<"coordinates", s, k>> : k \in 1 .. (dim + 1)}
    ELSE {}

\* Two iterations that may run concurrently are about to touch one location,
\* one of them writing it.
Conflict(a, b) ==
    /\ a # b
    /\ Runnable(a)
    /\ Runnable(b)
    /\ \/ NextWrites(a) \cap NextWrites(b) # {}
       \/ NextWrites(a) \cap NextReads(b) # {}
       \/ NextReads(a) \cap NextWrites(b) # {}

\* How many entries of list are the point p.
Multiplicity(list, p) == Cardinality({i \in DOMAIN list : list[i] = p})

\* ----------------------------------------------------------------- claims

\* C1: when update_nodes returns, every inlet point that is not also an
\* outlet point holds, in each component j, inlet_update_function[j](t, p),
\* and every outlet point holds outlet_update_function[j](t, q) -- in each of
\* the four policies.
C1_ReturnedFieldHoldsFunctionValues ==
    call_pc = "returned" =>
        LET v == call_variant IN
        /\ \A p \in Range(inlet_nodes[v]) \ Range(outlet_nodes[v]) : \A j \in Dims :
               velocity_tensor[CellOf(p, j)] =
                   Apply(inlet_update_function[v][j], time_step, p)
        /\ \A q \in Range(outlet_nodes[v]) : \A j \in Dims :
               velocity_tensor[CellOf(q, j)] =
                   Apply(outlet_update_function[v][j], time_step, q)

\* C2: at every point of every interleaving of update_nodes, a velocity cell
\* whose point is not a registered inlet or outlet point still holds the
\* value it had when the call began, and the caller's density field is as it
\* was.
C2_UnregisteredCellsUntouched ==
    Entered =>
        /\ \A c \in Cells :
               PointOf(c) \notin Registered(call_variant) =>
                   velocity_tensor[c] = pre_velocity[c]
        /\ density_tensor = [p \in BoundaryPoint |-> InitialValue]

\* C3: with node lists free of duplicate coordinates, every policy leaves,
\* under every schedule, the field the sequential VelocityInitializer leaves
\* for the same lists, functions, time and initial field.
C3_VariantsAgreeWithSequential ==
    LET v == call_variant IN
    (call_pc = "returned" /\ NoDuplicates(inlet_nodes[v] \o outlet_nodes[v])) =>
        velocity_tensor =
            SequentialUpdate(pre_velocity, inlet_nodes[v], outlet_nodes[v],
                             inlet_update_function[v], outlet_update_function[v],
                             time_step)

\* C4: in a parallel policy running a duplicate-free list, each iteration
\* has scratch coordinates of its own, stores only into the cells of its own
\* node, and no two iterations that can run at once are about to access the
\* same location with one of them writing.
C4_ParallelIterationsDisjoint ==
    LET v == call_variant
        list == Nodes(call_pc, v)
    IN  (call_pc \in Families /\ Parallel(v) /\ NoDuplicates(list)) =>
            \A a, b \in DOMAIN iters :
                /\ a # b => Scratch(v, a) # Scratch(v, b)
                /\ iters[a].pc = "write" =>
                       coordinates[Scratch(v, a)] = CellOf(list[a], iters[a].j)
                /\ ~Conflict(a, b)

\* C5: the registration is what the last attach_nodes was handed, and once
\* an earlier registration has been replaced, update_nodes changes no cell of
\* a point outside the new lists: cells of points only the earlier
\* registration held keep the value they had before the call.
C5_ReattachReplacesRegistration ==
    /\ inlet_nodes[policy] = arg_nodes[1]
    /\ outlet_nodes[policy] = arg_nodes[2]
    /\ (Entered /\ replaced_points # {}) =>
           \A c \in Cells :
               PointOf(c) \notin (Range(arg_nodes[1]) \cup Range(arg_nodes[2])) =>
                   velocity_tensor[c] = pre_velocity[c]

\* C6: with no inlet and no outlet node registered, update_nodes runs no
\* iteration, does not throw, evaluates no update function and leaves the
\* velocity field as it was, whether or not update functions were attached;
\* each loop can end at once.
C6_NoNodesIsNoOp ==
    LET v == call_variant IN
    (Entered /\ inlet_nodes[v] = <<>> /\ outlet_nodes[v] = <<>>) =>
        /\ call_pc # "failed"
        /\ iters = <<>>
        /\ evals = NoEvals
        /\ velocity_tensor = pre_velocity
        /\ call_pc \in Families => ENABLED Join

\* update_nodes has returned with nothing registered and no function attached.
C6_Witness ==
    /\ call_pc = "returned"
    /\ inlet_nodes[call_variant] = <<>>
    /\ outlet_nodes[call_variant] = <<>>
    /\ ~Attached("inlet", call_variant)
    /\ ~Attached("outlet", call_variant)

\* C7: update_nodes never returns normally when a family has registered
\* nodes and no attached functions: it throws at that family's first
\* evaluation.  No iteration of such a family gets as far as a store, no cell
\* ever holds a value that an empty function produced, and when it is the
\* inlet family the whole field is as it was before the call.
C7_UnattachedFunctionsFailFast ==
    LET v == call_variant IN
    /\ call_pc = "returned" =>
           \A family \in Families :
               Nodes(family, v) # <<>> => Attached(family, v)
    /\ (call_pc \in Families /\ ~Attached(call_pc, v)) =>
           \A i \in DOMAIN iters : iters[i].pc \in {"copy", "eval"}
    /\ Entered =>
           \A c \in Cells :
               velocity_tensor[c] = pre_velocity[c] \/ IsSet(velocity_tensor[c].fn)
    /\ (Entered /\ inlet_nodes[v] # <<>> /\ ~Attached("inlet", v)) =>
           velocity_tensor = pre_velocity

\* update_nodes has thrown on a registered inlet node with empty functions.
C7_Witness ==
    /\ call_pc = "failed"
    /\ inlet_nodes[call_variant] # <<>>
    /\ ~Attached("inlet", call_variant)

\* C8: node lists with a coordinate registered twice, or registered as inlet
\* and as outlet, are refused at setup, so update_nodes never runs on them.
C8_UpdateNeverRunsOnDuplicates ==
    Entered =>
        NoDuplicates(inlet_nodes[call_variant] \o outlet_nodes[call_variant])

\* C9: during and after every update_nodes call the node lists and the
\* function arrays of the policy are what the last attach_nodes and
\* attach_update_functions were handed.
C9_UpdateLeavesRegistration ==
    Entered =>
        /\ inlet_nodes[call_variant] = arg_nodes[1]
        /\ outlet_nodes[call_variant] = arg_nodes[2]
        /\ inlet_update_function[call_variant] = arg_functions[1]
        /\ outlet_update_function[call_variant] = arg_functions[2]

\* A second update_nodes call has returned (the field it started from was
\* already written) with nodes and functions registered.
C9_Witness ==
    /\ call_pc = "returned"
    /\ pre_velocity # [c \in Cells |-> InitialValue]
    /\ inlet_nodes[call_variant] # <<>>
    /\ outlet_nodes[call_variant] # <<>>
    /\ Attached("inlet", call_variant)

\* C10: the simulation time changes only at the end of a perform_lbm
\* timestep, by one, after the five phases ran in the order initializer
\* update, streaming, boundary fix-up, collision, macroscopic recomputation:
\* the phases run so far in a timestep are always a prefix of that order.
C10_PhasesInFixedOrder ==
    /\ [](phase_log = SubSeq(PhaseOrder, 1, Len(phase_log)))
    /\ [][sim_time' # sim_time =>
              /\ phase_log = PhaseOrder
              /\ sim_time' = sim_time + 1]_vars

\* A second timestep has run all of its phases.
C10_Witness ==
    /\ lbm_pc = "endstep"
    /\ sim_time = 1
    /\ phase_log = PhaseOrder

\* C11: in every policy a loop of update_nodes ends, and update_nodes
\* returns, only when each iteration of the loop -- one per entry of the list
\* -- has made all of its stores; once the call has returned none of its
\* iterations is left.
C11_ReturnAfterAllIterations ==
    /\ [][(call_pc \in Families /\ call_pc' \in {"outlet", "returned"}
                                /\ call_pc' # call_pc) =>
              /\ Len(iters) = Len(Nodes(call_pc, call_variant))
              /\ \A i \in DOMAIN iters : iters[i].pc = "done"]_vars
    /\ [](call_pc = "returned" => iters = <<>>)

\* A parallel policy has returned from a call whose loops had two iterations.
C11_Witness ==
    /\ call_pc = "returned"
    /\ Parallel(call_variant)
    /\ Len(inlet_nodes[call_variant] \o outlet_nodes[call_variant]) > 1
    /\ evals # NoEvals

C13_FunctionsCalledOnlyForOwnFamily ==
    LET v == call_variant IN
    Entered =>
        /\ \A e \in DOMAIN evals :
               /\ e.p \in Range(Nodes(e.family, v))
               /\ \E j \in Dims : e.fn = UpdateFunction(e.family, v)[j]
        /\ call_pc = "failed" =>
               \E family \in Families :
                   Nodes(family, v) # <<>> /\ ~Attached(family, v)

\* The test's setup: inlet nodes with their functions, no outlet node and
\* default-constructed outlet functions; update_nodes has returned.
C13_Witness ==
    /\ call_pc = "returned"
    /\ inlet_nodes[call_variant] # <<>>
    /\ outlet_nodes[call_variant] = <<>>
    /\ Attached("inlet", call_variant)
    /\ ~Attached("outlet", call_variant)
    /\ evals # NoEvals

\* C14: a step that changes a node list leaves both function arrays as
\* they were, a step that changes a function array leaves both node lists as
\* they were, and whatever the order of the calls the registration of the
\* policy is the pair of lists last handed to attach_nodes together with the
\* pair of arrays last handed to attach_update_functions.
C14_AttachCallsIndependent ==
    /\ [][<<inlet_nodes, outlet_nodes>>' # <<inlet_nodes, outlet_nodes>> =>
              UNCHANGED <<inlet_update_function, outlet_update_function>>]_vars
    /\ [][<<inlet_update_function, outlet_update_function>>'
               # <<inlet_update_function, outlet_update_function>> =>
              UNCHANGED <<inlet_nodes, outlet_nodes>>]_vars
    /\ [](/\ <<inlet_nodes[policy], outlet_nodes[policy]>> = arg_nodes
          /\ <<inlet_update_function[policy], outlet_update_function[policy]>>
                 = arg_functions)

\* The program has made one attach_nodes and one attach_update_functions
\* call, in either order, and nothing else.
C14_Witness ==
    /\ n_calls = 2
    /\ call_pc = "idle"
    /\ arg_nodes[1] # <<>>
    /\ Attached("inlet", policy)

\* C15: attaching nodes and functions to one policy class leaves the lists
\* of the other three classes empty and their functions unset, so
\* update_nodes of another class runs no iteration, evaluates nothing,
\* writes nothing and does not throw; an update_nodes of the attached class
\* runs one iteration per entry of the lists the class holds.
C15_RegistrationPerVariant ==
    /\ \A w \in Variants \ {policy} :
           /\ inlet_nodes[w] = <<>>
           /\ outlet_nodes[w] = <<>>
           /\ ~Attached("inlet", w)
           /\ ~Attached("outlet", w)
    /\ (Entered /\ call_variant # policy) =>
           /\ iters = <<>>
           /\ evals = NoEvals
           /\ velocity_tensor = pre_velocity
           /\ call_pc # "failed"
    /\ (call_pc \in Families /\ call_variant = policy) =>
           Len(iters) = Len(Nodes(call_pc, policy))

\* update_nodes of another class has returned while the program's own class
\* has nodes and functions attached.
C15_Witness ==
    /\ call_pc = "returned"
    /\ call_variant # policy
    /\ inlet_nodes[policy] # <<>>
    /\ Attached("inlet", policy)

C17_UpdateIdempotent ==
    LET v == call_variant IN
    call_pc = "returned" =>
        /\ \A p \in Registered(v) : \A j \in Dims :
               velocity_tensor[CellOf(p, j)].t = time_step
        /\ pre_velocity =
               SequentialUpdate(pre_velocity, inlet_nodes[v], outlet_nodes[v],
                                inlet_update_function[v],
                                outlet_update_function[v], time_step)
               => velocity_tensor = pre_velocity

\* C18: the index an iteration is about to store at is made of the
\* coordinates of a registered point and a component in 0 .. dim-1, so that it
\* lies inside the tensor exactly when that point lies inside the lattice.
C18_WritesAtRegisteredPoints ==
    call_pc \in Families =>
        \A i \in DOMAIN iters :
            iters[i].pc = "write" =>
                LET c == coordinates[Scratch(call_variant, i)] IN
                /\ PointOf(c) \in Registered(call_variant)
                /\ c[dim + 1] \in Dims
                /\ c \in Cells <=> PointOf(c) \in BoundaryPoint

\* C19: every evaluation of a running call is of a function of the running
\* policy at the time passed to the call and at an entry of that family's
\* list, never more often than the point is listed; and when the call has
\* returned, each function of each family was evaluated exactly once for
\* every entry of its family's list.
C19_OneEvaluationPerEntry ==
    LET v == call_variant IN
    /\ Entered =>
           \A e \in DOMAIN evals :
               /\ e.t = time_step
               /\ \E j \in Dims : e.fn = UpdateFunction(e.family, v)[j]
               /\ evals[e] <= Multiplicity(Nodes(e.family, v), e.p)
    /\ call_pc = "returned" =>
           \A family \in Families : \A j \in Dims :
               \A p \in Range(Nodes(family, v)) :
                   Count(evals, [family |-> family,
                                 fn |-> UpdateFunction(family, v)[j],
                                 t |-> time_step, p |-> p])
                       = Multiplicity(Nodes(family, v), p)

\* A call at a time other than 0 has returned with entries in both lists.
C19_Witness ==
    /\ call_pc = "returned"
    /\ time_step = MaxTime
    /\ inlet_nodes[call_variant] # <<>>
    /\ Len(outlet_nodes[call_variant]) > 1

====
